---- MODULE Spec2Model ----
(***************************************************************************)
(* Model of tokenizer.py: StanfordCoreNlpTokenizer (English) and           *)
(* SudachiTokenizer (Japanese).  A behaviour is the life of one tokenizer  *)
(* object: its construction and then any number of tokenize calls on one   *)
(* sentence.  The external tagger / analyzer is the environment: what it   *)
(* returns for the sentence is drawn in Init, whether a given invocation   *)
(* raises is drawn at the call.                                            *)
(*                                                                         *)
(* Python values: a str that is only compared or joined is a TLA+ string;  *)
(* the str the regular expression scans is a sequence of one-character     *)
(* strings, so that positions in it can be counted; a list or tuple is a   *)
(* sequence (token[0], token[1] are tok[1], tok[2]); match positions keep  *)
(* Python's 0-based, end-exclusive convention.                             *)
(***************************************************************************)
EXTENDS Integers, Sequences, FiniteSets, TLC

VARIABLES kind, raw, handle, sudachi_mode, default_filter, out

vars == <<kind, raw, handle, sudachi_mode, default_filter, out>>

\* longest tagger output considered
MaxLen == 4

Min(a, b) == IF a < b THEN a ELSE b

(***************************************************************************)
(* Python built-ins used by the code                                       *)
(***************************************************************************)

\* sep.join(xs) for a list of str
RECURSIVE str_join(_, _)
str_join(sep, xs) ==
    IF xs = <<>> THEN ""
    ELSE IF Len(xs) = 1 THEN xs[1]
    ELSE xs[1] \o sep \o str_join(sep, Tail(xs))

\* "".join(xs) where the result is kept as a sequence of characters
RECURSIVE chars_join(_)
chars_join(xs) == IF xs = <<>> THEN <<>> ELSE xs[1] \o chars_join(Tail(xs))

\* xs[a:b] for 0 <= a, 0 <= b: a slice never raises, it is cut to the list
py_slice(xs, a, b) == SubSeq(xs, Min(a, Len(xs)) + 1, Min(b, Len(xs)))

\* number of consecutive characters c of s from (0-based) position i on
RECURSIVE run_len(_, _, _)
run_len(s, i, c) ==
    IF i < Len(s) /\ s[i + 1] = c THEN 1 + run_len(s, i + 1, c) ELSE 0

\* The pattern a*b+ tried at position i with a* having taken j characters:
\* b+ takes the longest run of b; when it cannot take one, a* gives one
\* character back.  The end of the match, or -1.
RECURSIVE re_backtrack(_, _, _, _)
re_backtrack(s, i, j, b) ==
    LET n == run_len(s, i + j, b)
    IN  IF n >= 1 THEN i + j + n
        ELSE IF j = 0 THEN -1
        ELSE re_backtrack(s, i, j - 1, b)

\* a slip in the pattern, a*b for a*b+: one b only is taken
re_match_at_single_b(a, b, s, i) ==
    LET j == run_len(s, i, a)
    IN  IF run_len(s, i + j, b) >= 1 THEN i + j + 1 ELSE -1

\* a*b+ anchored at position i (a* is greedy): the end of the match, or -1
re_match_at(a, b, s, i) == re_backtrack(s, i, run_len(s, i, a), b)

\* a scan that looks for the next match one character after the start of the
\* previous one, as an overlapping search does
RECURSIVE re_finditer_overlapping(_, _, _, _)
re_finditer_overlapping(a, b, s, pos) ==
    IF pos > Len(s) THEN <<>>
    ELSE LET e == re_match_at(a, b, s, pos)
         IN  IF e # -1 THEN <<<<pos, e>>>> \o re_finditer_overlapping(a, b, s, pos + 1)
             ELSE re_finditer_overlapping(a, b, s, pos + 1)

\* re.finditer(r"a*b+", s) from position pos: the <<start, end>> of every
\* match, each search starting where the previous match ended
RECURSIVE re_finditer(_, _, _, _)
re_finditer(a, b, s, pos) ==
    IF pos > Len(s) THEN <<>>
    ELSE LET e == re_match_at(a, b, s, pos)
         IN  IF e # -1 THEN <<<<pos, e>>>> \o re_finditer(a, b, s, e)
             ELSE re_finditer(a, b, s, pos + 1)

\* [token[0] for token in tokens if token[1] in pos_filter]
RECURSIVE texts_where(_, _)
texts_where(tokens, pos_filter) ==
    IF tokens = <<>> THEN <<>>
    ELSE (IF \E k \in 1..Len(pos_filter) : pos_filter[k] = tokens[1][2]
          THEN <<tokens[1][1]>> ELSE <<>>)
         \o texts_where(Tail(tokens), pos_filter)

\* [token[0] for token in xs]
texts_of(xs) == [i \in 1..Len(xs) |-> xs[i][1]]

(***************************************************************************)
(* StanfordCoreNlpTokenizer                                                *)
(***************************************************************************)

EN_DEFAULT_FILTER == <<"JJ", "JJR", "JJS", "NN", "NNS", "NNP", "NNPS">>

\* a slip that returns the two-character "NN" for a noun tag
EN_anonymize_pos_two_chars(pos) ==
    IF pos = "JJ" \/ pos = "JJR" \/ pos = "JJS" THEN <<"J">>
    ELSE IF pos = "NN" \/ pos = "NNS" \/ pos = "NNP" \/ pos = "NNPS" THEN <<"N", "N">>
    ELSE <<"O">>

EN_anonymize_pos(pos) ==
    IF pos = "JJ" \/ pos = "JJR" \/ pos = "JJS" THEN <<"J">>
    ELSE IF pos = "NN" \/ pos = "NNS" \/ pos = "NNP" \/ pos = "NNPS" THEN <<"N">>
    ELSE <<"O">>

\* an off-by-one length limit
EN_keep_phrase_off_by_one(x) == Len(x) <= 3 + 1

\* lambda x: len(x) <= 3
EN_keep_phrase(x) == Len(x) <= 3

\* pos_tags = [self._anonymize_pos(token[1]) for token in tokens]
EN_pos_tags(tokens) == [i \in 1..Len(tokens) |-> EN_anonymize_pos(tokens[i][2])]

\* iterator = re.finditer(r"J*N+", "".join(pos_tags))
EN_iterator(tokens) == re_finditer("J", "N", chars_join(EN_pos_tags(tokens)), 0)

\* the matches whose token slice passes the filter
EN_kept(tokens) ==
    SelectSeq(EN_iterator(tokens),
              LAMBDA m : EN_keep_phrase(py_slice(tokens, m[1], m[2])))

EN_phrases(tokens) ==
    LET kept == EN_kept(tokens)
    IN  [k \in 1..Len(kept) |->
            str_join("_", texts_of(py_slice(tokens, kept[k][1], kept[k][2])))]

\* a token filter that ignores the caller's pos_filter
EN_tokens_default_only(tokens, pos_filter) == texts_where(tokens, EN_DEFAULT_FILTER)

EN_tokens(tokens, pos_filter) == texts_where(tokens, pos_filter)

\* a tokenize that builds its phrases from the filtered tokens only
EN_tokenize_phrases_of_filtered(tokens, pos_filter) ==
    <<EN_tokens(tokens, pos_filter),
      EN_phrases(SelectSeq(tokens,
                           LAMBDA t : \E k \in 1..Len(pos_filter) : pos_filter[k] = t[2]))>>

\* the value tokenize returns for the tagger output `tokens`
EN_tokenize(tokens, pos_filter) ==
    <<EN_tokens(tokens, pos_filter), EN_phrases(tokens)>>

\* the locals of a call that returned: tokens, the joined symbol string and
\* the match spans that passed the length filter
EN_locals(tokens) ==
    [ tokens |-> tokens,
      symbols |-> chars_join(EN_pos_tags(tokens)),
      kept |-> EN_kept(tokens) ]

(***************************************************************************)
(* SudachiTokenizer.  Japanese text is written in ASCII here: the tags     *)
(* meishi, keiyoushi, doushi, hojokigou, kuuhaku stand for the noun,       *)
(* adjective, verb, supplementary-symbol and blank categories; the symbol  *)
(* characters K, M, T stand for the three single characters that           *)
(* _anonymize_pos returns for adjective, noun and other; the surfaces      *)
(* utsukushii, hana, saku stand for one adjective, one noun and one verb.  *)
(***************************************************************************)

JA_DEFAULT_FILTER == <<"meishi", "keiyoushi">>

\* __init__: the attribute sudachi_mode after construction with mode string m
JA_init_mode(m) ==
    IF m = "A" THEN "A"
    ELSE IF m = "B" THEN "B"
    ELSE IF m = "C" THEN "C"
    ELSE "unset"

JA_anonymize_pos(pos) ==
    IF pos = "keiyoushi" THEN <<"K">>
    ELSE IF pos = "meishi" THEN <<"M">>
    ELSE <<"T">>

\* a condition that forgets the empty surface
JA_is_content_keeps_empty(morph) == ~(morph[1] \in {"EOS", "BOS"})

\* the condition of the comprehension that builds tokens
JA_is_content(morph) == ~((morph[1] \in {"EOS", "BOS"}) \/ (morph[1] = ""))

\* tokens = [(surface, part_of_speech[0]) for morph in ... if ...]
JA_token_list(morphs) == SelectSeq(morphs, JA_is_content)

\* lambda x: len(x) <= 3
JA_keep_phrase(x) == Len(x) <= 3

\* pos_tags = [self._anonymize_pos(token[1]) for token in tokens]
JA_pos_tags(tokens) == [i \in 1..Len(tokens) |-> JA_anonymize_pos(tokens[i][2])]

\* iterator = re.finditer(r"K*M+", "".join(pos_tags))
JA_iterator(tokens) == re_finditer("K", "M", chars_join(JA_pos_tags(tokens)), 0)

JA_kept(tokens) ==
    SelectSeq(JA_iterator(tokens),
              LAMBDA m : JA_keep_phrase(py_slice(tokens, m[1], m[2])))

JA_phrases(tokens) ==
    LET kept == JA_kept(tokens)
    IN  [k \in 1..Len(kept) |->
            str_join("_", texts_of(py_slice(tokens, kept[k][1], kept[k][2])))]

JA_tokens(tokens, pos_filter) == texts_where(tokens, pos_filter)

\* the value tokenize returns for the analyzer output `morphs`
JA_tokenize(morphs, pos_filter) ==
    LET tokens == JA_token_list(morphs)
    IN  <<JA_tokens(tokens, pos_filter), JA_phrases(tokens)>>

JA_locals(morphs) ==
    LET tokens == JA_token_list(morphs)
    IN  [ tokens |-> tokens,
          symbols |-> chars_join(JA_pos_tags(tokens)),
          kept |-> JA_kept(tokens) ]

(***************************************************************************)
(* Inputs                                                                  *)
(***************************************************************************)

\* (word, tag) pairs the English tagger may return
EN_Vocab == { <<"quick", "JJ">>, <<"better", "JJR">>, <<"best", "JJS">>,
              <<"fox", "NN">>, <<"dogs", "NNS">>, <<"Rome", "NNP">>,
              <<"Alps", "NNPS">>, <<"jumps", "VBZ">>, <<"fox", "VB">> }

\* (surface, part_of_speech()[0]) pairs the Japanese analyzer may return
JA_Vocab == { <<"utsukushii", "keiyoushi">>, <<"hana", "meishi">>, <<"saku", "doushi">>,
              <<"EOS", "meishi">>, <<"BOS", "hojokigou">>, <<"", "kuuhaku">> }

SeqsUpTo(S, n) == UNION { [1..k -> S] : k \in 0..n }

\* the lists a caller passes as pos_filter
EN_Filters == { <<>>, <<"VB", "NN">>,
                <<"JJ", "JJR", "JJS", "NN", "NNS", "NNP", "NNPS", "VB">> }
JA_Filters == { <<>>, <<"doushi", "meishi">>, <<"meishi", "keiyoushi", "doushi">> }

\* the optional arguments of a call: no pos_filter, or one of the lists
EN_Args == { <<>> } \cup { <<f>> : f \in EN_Filters }
JA_Args == { <<>> } \cup { <<f>> : f \in JA_Filters }

\* what the caller passes as sudachi_mode (nothing means "C")
ModeStrings == { "A", "B", "C", "D" }

(***************************************************************************)
(* State                                                                   *)
(***************************************************************************)

None == "None"

\* the local variables of a call that did not get to compute them
NoLocals == [ tokens |-> <<>>, symbols |-> <<>>, kept |-> <<>> ]

\* no call made yet
NoCall == [ status |-> "none", invocations |-> 0, explicit |-> FALSE,
            pos_filter |-> <<>>, pos_filter_after |-> <<>>, result |-> <<>>,
            locals |-> NoLocals ]

Init ==
    /\ kind \in {"EN", "JA"}
    /\ raw \in (IF kind = "EN" THEN SeqsUpTo(EN_Vocab, MaxLen)
                               ELSE SeqsUpTo(JA_Vocab, MaxLen))
    /\ handle = None
    /\ sudachi_mode = "unset"
    /\ default_filter = (IF kind = "EN" THEN EN_DEFAULT_FILTER ELSE JA_DEFAULT_FILTER)
    /\ out = NoCall

\* StanfordCoreNlpTokenizer(url_or_path, port)
ConstructEN ==
    /\ kind = "EN" /\ handle = None
    /\ handle' = "StanfordCoreNLP"
    /\ UNCHANGED <<kind, raw, sudachi_mode, default_filter, out>>

\* SudachiTokenizer(sudachi_mode)
ConstructJA ==
    /\ kind = "JA" /\ handle = None
    /\ \E m \in ModeStrings :
          /\ handle' = "SudachiDictionary"
          /\ sudachi_mode' = JA_init_mode(m)
    /\ UNCHANGED <<kind, raw, default_filter, out>>

\* a tokenize that appends to the list it filters by (pos_filter.append),
\* which is the shared default list when the caller passed none
EN_call_appending(passed, tagger_ok) ==
    LET pos_filter == IF passed = <<>> THEN default_filter ELSE passed[1]
    IN  /\ out' = [ status |-> IF tagger_ok THEN "returned" ELSE "raised",
                    invocations |-> 1,
                    explicit |-> passed # <<>>,
                    pos_filter |-> pos_filter,
                    pos_filter_after |-> IF tagger_ok THEN Append(pos_filter, "VBZ")
                                                      ELSE pos_filter,
                    result |-> IF tagger_ok
                               THEN EN_tokenize(raw, Append(pos_filter, "VBZ"))
                               ELSE <<>>,
                    locals |-> IF tagger_ok THEN EN_locals(raw) ELSE NoLocals ]
        /\ default_filter' = IF passed = <<>> /\ tagger_ok /\ Len(default_filter) < 9
                             THEN Append(default_filter, "VBZ") ELSE default_filter
        /\ UNCHANGED <<kind, raw, handle, sudachi_mode>>

\* tokenize(sentence[, pos_filter]) on the English tokenizer.  passed is the
\* tuple of optional arguments: <<>> when the caller gives no pos_filter,
\* <<f>> when it gives the list f; tagger_ok tells whether the tagger
\* answers or raises.
EN_call(passed, tagger_ok) ==
    LET pos_filter == IF passed = <<>> THEN default_filter ELSE passed[1]
    IN  /\ out' = [ status |-> IF tagger_ok THEN "returned" ELSE "raised",
                    invocations |-> 1,
                    explicit |-> passed # <<>>,
                    pos_filter |-> pos_filter,
                    pos_filter_after |-> pos_filter,
                    result |-> IF tagger_ok THEN EN_tokenize(raw, pos_filter)
                                            ELSE <<>>,
                    locals |-> IF tagger_ok THEN EN_locals(raw) ELSE NoLocals ]
        /\ default_filter' = default_filter
        /\ UNCHANGED <<kind, raw, handle, sudachi_mode>>

TokenizeEN ==
    /\ kind = "EN" /\ handle # None
    /\ \E passed \in EN_Args, tagger_ok \in BOOLEAN :
          EN_call(passed, tagger_ok)

\* tokenize(sentence[, pos_filter]) on the Japanese tokenizer.  Reading
\* self.sudachi_mode raises AttributeError when __init__ set no such
\* attribute; the arguments are evaluated before the analyzer is invoked.
JA_call(passed, analyzer_ok) ==
    LET pos_filter == IF passed = <<>> THEN default_filter ELSE passed[1]
        has_mode == sudachi_mode # "unset"
        ok == has_mode /\ analyzer_ok
    IN  /\ out' = [ status |-> IF ok THEN "returned" ELSE "raised",
                    invocations |-> IF has_mode THEN 1 ELSE 0,
                    explicit |-> passed # <<>>,
                    pos_filter |-> pos_filter,
                    pos_filter_after |-> pos_filter,
                    result |-> IF ok THEN JA_tokenize(raw, pos_filter)
                                     ELSE <<>>,
                    locals |-> IF ok THEN JA_locals(raw) ELSE NoLocals ]
        /\ default_filter' = default_filter
        /\ UNCHANGED <<kind, raw, handle, sudachi_mode>>

TokenizeJA ==
    /\ kind = "JA" /\ handle # None
    /\ \E passed \in JA_Args, analyzer_ok \in BOOLEAN :
          JA_call(passed, analyzer_ok)

Next == ConstructEN \/ ConstructJA \/ TokenizeEN \/ TokenizeJA

Spec == Init /\ [][Next]_vars

(***************************************************************************)
(* Reference definitions for the properties, written from the statement    *)
(* of the algorithm and not from the code                                  *)
(***************************************************************************)

Returned == out.status = "returned"
Raised == out.status = "raised"

Sentinels == {"BOS", "EOS", ""}

\* the role of a raw tag, by table
RefClass(tag) ==
    IF kind = "EN"
    THEN (IF tag \in {"JJ", "JJR", "JJS"} THEN "Adjective"
          ELSE IF tag \in {"NN", "NNS", "NNP", "NNPS"} THEN "Noun"
          ELSE "Other")
    ELSE (IF tag \in {"keiyoushi"} THEN "Adjective"
          ELSE IF tag \in {"meishi"} THEN "Noun"
          ELSE "Other")

\* the symbol character that stands for a role in the scanned string
RefSymbol(role) ==
    IF kind = "EN"
    THEN (CASE role = "Adjective" -> "J" [] role = "Noun" -> "N" [] OTHER -> "O")
    ELSE (CASE role = "Adjective" -> "K" [] role = "Noun" -> "M" [] OTHER -> "T")

\* the tokens of the sentence: the tagger output, less (Japanese) the
\* morphemes with a sentinel or empty surface
RefTokens ==
    IF kind = "EN" THEN raw
    ELSE SelectSeq(raw, LAMBDA m : m[1] \notin Sentinels)

RefRoles == [i \in 1..Len(RefTokens) |-> RefClass(RefTokens[i][2])]

\* Left-to-right scan with the states Start, InAdjectiveRun, InNounRun over
\* the roles from (1-based) index i on; start is the 0-based start of the
\* run in progress.  The <<start, end>> (0-based, end-exclusive) of every
\* maximal run (Adjective)*(Noun)+, in order.
RECURSIVE RefScan(_, _, _, _)
RefScan(roles, i, st, start) ==
    IF i > Len(roles)
    THEN (IF st = "InNounRun" THEN << <<start, Len(roles)>> >> ELSE <<>>)
    ELSE LET c == roles[i]
         IN  CASE st = "InNounRun" /\ c = "Noun" ->
                    RefScan(roles, i + 1, "InNounRun", start)
               [] st = "InNounRun" /\ c = "Adjective" ->
                    << <<start, i - 1>> >> \o RefScan(roles, i + 1, "InAdjectiveRun", i - 1)
               [] st = "InNounRun" /\ c = "Other" ->
                    << <<start, i - 1>> >> \o RefScan(roles, i + 1, "Start", 0)
               [] st = "InAdjectiveRun" /\ c = "Noun" ->
                    RefScan(roles, i + 1, "InNounRun", start)
               [] st = "InAdjectiveRun" /\ c = "Adjective" ->
                    RefScan(roles, i + 1, "InAdjectiveRun", start)
               [] st = "Start" /\ c = "Noun" ->
                    RefScan(roles, i + 1, "InNounRun", i - 1)
               [] st = "Start" /\ c = "Adjective" ->
                    RefScan(roles, i + 1, "InAdjectiveRun", i - 1)
               [] OTHER -> RefScan(roles, i + 1, "Start", 0)

RefRuns == RefScan(RefRoles, 1, "Start", 0)

\* the texts of tokens lo+1 .. hi joined by "_"
RECURSIVE RefJoin(_, _, _)
RefJoin(toks, lo, hi) ==
    IF hi <= lo THEN ""
    ELSE IF hi = lo + 1 THEN toks[hi][1]
    ELSE RefJoin(toks, lo, hi - 1) \o "_" \o toks[hi][1]

RefKeptRuns == SelectSeq(RefRuns, LAMBDA r : r[2] - r[1] <= 3)

RefPhrases ==
    [k \in 1..Len(RefKeptRuns) |->
        RefJoin(RefTokens, RefKeptRuns[k][1], RefKeptRuns[k][2])]

Range(f) == { f[i] : i \in DOMAIN f }

\* the returned pair
RetTokens == out.result[1]
RetPhrases == out.result[2]

(***************************************************************************)
(* Properties                                                              *)
(***************************************************************************)

\* C1: whenever tokenize returns, its phrase list is the reference result:
\* the maximal (Adjective)*(Noun)+ runs of the token sequence, found left to
\* right, those of at most 3 tokens kept, each kept run giving one entry
\* (duplicates kept), its token texts in order joined by "_".
C1_PhrasesAreReference == Returned => RetPhrases = RefPhrases

\* C1 happens: a call returned two phrases with the same text, one of them
\* of several tokens
C1_Witness ==
    /\ Returned
    /\ Len(RetPhrases) >= 2
    /\ \E i, j \in 1..Len(RetPhrases) : i < j /\ RetPhrases[i] = RetPhrases[j]
    /\ \E r \in Range(RefKeptRuns) : r[2] - r[1] >= 2

\* C2: every returned phrase is built from a span of 1 to 3 tokens, and no
\* returned phrase is built from a span that lies inside a maximal run of
\* more than 3 tokens.
C2_LengthFilter ==
    Returned =>
        /\ Len(RetPhrases) = Len(out.locals.kept)
        /\ \A k \in 1..Len(RetPhrases) :
              LET m == out.locals.kept[k]
              IN  /\ m[2] - m[1] \in 1..3
                  /\ m[2] <= Len(out.locals.tokens)
                  /\ RetPhrases[k] = RefJoin(out.locals.tokens, m[1], m[2])
                  /\ \A r \in Range(RefRuns) :
                        r[2] - r[1] > 3 => (m[2] <= r[1] \/ r[2] <= m[1])

\* C2 happens: the sentence holds a run of more than 3 tokens and the call
\* returned no phrase for it
C2_Witness ==
    /\ Returned
    /\ \E r \in Range(RefRuns) : r[2] - r[1] > 3
    /\ RetPhrases = <<>>

\* C3: the spans behind the returned phrases are in left-to-right order and
\* pairwise disjoint: each ends no later than the next one starts.
C3_SpansDisjointOrdered ==
    Returned =>
        /\ Len(RetPhrases) = Len(out.locals.kept)
        /\ \A k \in 1..Len(RetPhrases) :
              /\ out.locals.kept[k][1] < out.locals.kept[k][2]
              /\ RetPhrases[k] = RefJoin(out.locals.tokens, out.locals.kept[k][1],
                                         out.locals.kept[k][2])
        /\ \A k \in 1..(Len(RetPhrases) - 1) :
              out.locals.kept[k][2] <= out.locals.kept[k + 1][1]

\* C3 happens: two returned phrases whose spans touch (the second starts
\* where the first ends)
C3_Witness ==
    /\ Returned
    /\ \E k \in 1..(Len(RetPhrases) - 1) :
          out.locals.kept[k][2] = out.locals.kept[k + 1][1]

\* C4: the returned token list is the texts of the tokens whose raw tag is
\* a member of pos_filter, in sentence order, repeats kept.
C4_TokenFilter ==
    Returned =>
        LET allowed == Range(out.pos_filter)
            picked == SelectSeq(RefTokens, LAMBDA t : t[2] \in allowed)
        IN  RetTokens = [i \in 1..Len(picked) |-> picked[i][1]]

\* C4 happens: with a pos_filter of the caller's, a text is returned twice
\* and some token of the sentence is left out
C4_Witness ==
    /\ Returned /\ out.explicit
    /\ \E i, j \in 1..Len(RetTokens) : i < j /\ RetTokens[i] = RetTokens[j]
    /\ Len(RetTokens) < Len(RefTokens)

\* C5: the symbol string the pattern is matched against has one symbol per
\* token, and symbol i is the one the table gives for token i's tag.
C5_SymbolsAligned ==
    Returned =>
        /\ Len(out.locals.symbols) = Len(RefTokens)
        /\ \A i \in 1..Len(RefTokens) :
              out.locals.symbols[i] = RefSymbol(RefClass(RefTokens[i][2]))

\* C5 happens: a returned call on a sentence with an adjective, a noun and
\* a token of another tag
C5_Witness ==
    /\ Returned
    /\ {"Adjective", "Noun", "Other"} \subseteq Range(RefRoles)

\* C6: in the Japanese tokenize no BOS, EOS or empty surface is a token, a
\* returned token or a component of a returned phrase; the discarded
\* morphemes take no symbol position, so the phrases are those of the
\* sequence with these morphemes taken out.
C6_SentinelsDiscarded ==
    (kind = "JA" /\ Returned) =>
        /\ \A i \in 1..Len(out.locals.tokens) : out.locals.tokens[i][1] \notin Sentinels
        /\ \A i \in 1..Len(RetTokens) : RetTokens[i] \notin Sentinels
        /\ Len(out.locals.symbols) =
              Cardinality({ i \in 1..Len(raw) : raw[i][1] \notin Sentinels })
        /\ out.locals.tokens = RefTokens
        /\ RetPhrases = RefPhrases
        /\ Len(RetPhrases) = Len(out.locals.kept)
        /\ \A k \in 1..Len(RetPhrases) :
              RetPhrases[k] = RefJoin(out.locals.tokens, out.locals.kept[k][1],
                                      out.locals.kept[k][2])

\* C6 happens: an adjective and a noun with a discarded morpheme between
\* them came back as one phrase
C6_Witness ==
    /\ kind = "JA" /\ Returned
    /\ \E i \in 2..(Len(raw) - 1) :
          /\ raw[i][1] \in Sentinels
          /\ raw[i - 1] = <<"utsukushii", "keiyoushi">>
          /\ raw[i + 1] = <<"hana", "meishi">>
    /\ "utsukushii_hana" \in Range(RetPhrases)

\* the default list as the class definition creates it
InitialDefault == IF kind = "EN" THEN EN_DEFAULT_FILTER ELSE JA_DEFAULT_FILTER

\* the token texts of the spans behind the returned phrases
PhraseTokenTexts ==
    { out.locals.tokens[i][1] :
        i \in { j \in 1..Len(out.locals.tokens) :
                  \E k \in 1..Len(out.locals.kept) :
                     out.locals.kept[k][1] < j /\ j <= out.locals.kept[k][2] } }

\* C7: every call that ended invoked the tagger / analyzer exactly once; a
\* call that raised returned nothing, a call that returned gave the pair.
C7_OneInvocation ==
    out.status # "none" =>
        /\ out.invocations = 1
        /\ Raised => out.result = <<>>
        /\ Returned => Len(out.result) = 2

\* C8: a tokenize call leaves the shared default list, the list it was
\* given, the tagger handle and the split mode as they were; a call made
\* without pos_filter filters by the default list as first created; and two
\* successive calls with the same arguments return the same pair.
C8_NoSharedState ==
    [][ handle # "None" =>
          /\ default_filter' = default_filter
          /\ handle' = handle
          /\ sudachi_mode' = sudachi_mode
          /\ out'.pos_filter_after = out'.pos_filter
          /\ (~out'.explicit /\ out'.status # "none") => out'.pos_filter = InitialDefault
          /\ ( /\ out.status = "returned" /\ out'.status = "returned"
               /\ out'.explicit = out.explicit
               /\ out.explicit => out'.pos_filter = out.pos_filter )
             => out'.result = out.result ]_vars

\* C8 happens: a call without pos_filter returned tokens, and the default
\* list and the instance are as construction left them
C8_Witness ==
    /\ Returned /\ ~out.explicit
    /\ RetTokens # <<>>
    /\ default_filter = InitialDefault
    /\ handle # "None"

\* C9: every constructed SudachiTokenizer has its split mode set to one of
\* A, B, C.
C9_ModeAlwaysSet ==
    (kind = "JA" /\ handle # "None") => sudachi_mode \in {"A", "B", "C"}

\* the tagger outputs and the pos_filter values considered
EN_Sentences == SeqsUpTo(EN_Vocab, MaxLen)
JA_Sentences == SeqsUpTo(JA_Vocab, MaxLen)
EN_AllFilters == EN_Filters \cup {EN_DEFAULT_FILTER}
JA_AllFilters == JA_Filters \cup {JA_DEFAULT_FILTER}

\* every token behind a span of kept is, by its text, in the list returned
Contained(tokens, kept, returned) ==
    \A i \in 1..Len(tokens) :
        (\E k \in 1..Len(kept) : kept[k][1] < i /\ i <= kept[k][2])
        => \E n \in 1..Len(returned) : returned[n] = tokens[i][1]

\* the pos_filter values with which, whatever the tagger returns, every
\* token of every phrase is in the returned token list
EN_Guaranteeing ==
    { f \in EN_AllFilters :
        \A t \in EN_Sentences :
            Contained(EN_locals(t).tokens, EN_locals(t).kept, EN_tokenize(t, f)[1]) }
JA_Guaranteeing ==
    { f \in JA_AllFilters :
        \A t \in JA_Sentences :
            Contained(JA_locals(t).tokens, JA_locals(t).kept, JA_tokenize(t, f)[1]) }

Guaranteeing == IF kind = "EN" THEN EN_Guaranteeing ELSE JA_Guaranteeing

\* pos_filter holds every adjective tag and every noun tag
Covers(f) ==
    (IF kind = "EN" THEN {"JJ", "JJR", "JJS", "NN", "NNS", "NNP", "NNPS"}
                    ELSE {"keiyoushi", "meishi"}) \subseteq Range(f)

\* C10 as first stated, its last clause: after a call made with the default
\* pos_filter every token of every phrase is in the returned token list, and
\* the default is the only pos_filter with which that is guaranteed.
C10_OnlyWithDefault ==
    Returned =>
        /\ ~out.explicit
           => Contained(out.locals.tokens, out.locals.kept, RetTokens)
        /\ out.pos_filter = InitialDefault \/ out.pos_filter \notin Guaranteeing

\* C10, amended: successive calls that return give the same phrase list
\* whatever pos_filter each was given; after a call whose pos_filter holds
\* every adjective and noun tag (the default in particular) every token of
\* every phrase is in the returned token list; and the pos_filter values
\* with which that is guaranteed for every tagger output are exactly those
\* that hold every adjective and noun tag.
C10_PhrasesIgnoreFilter ==
    [][ /\ (out.status = "returned" /\ out'.status = "returned")
           => out'.result[2] = out.result[2]
        /\ (out'.status = "returned" /\ ~out'.explicit)
           => Covers(out'.pos_filter)
        /\ (out'.status = "returned" /\ Covers(out'.pos_filter))
           => Contained(out'.locals.tokens, out'.locals.kept, out'.result[1])
        /\ out'.status = "returned"
           => (out'.pos_filter \in Guaranteeing <=> Covers(out'.pos_filter)) ]_vars

\* C10 happens: a call with a pos_filter of the caller's that is not the
\* default but holds every adjective and noun tag returned a phrase, all of
\* whose tokens are in the returned token list, while another pos_filter
\* would have left a token of a phrase of this sentence out
C10_Witness ==
    /\ Returned /\ out.explicit
    /\ out.pos_filter # InitialDefault /\ Covers(out.pos_filter)
    /\ RetPhrases # <<>>
    /\ PhraseTokenTexts \subseteq Range(RetTokens)
    /\ \E g \in (IF kind = "EN" THEN EN_Filters ELSE JA_Filters) :
          \E t \in PhraseTokenTexts :
             t \notin Range(IF kind = "EN" THEN EN_tokens(raw, g)
                                           ELSE JA_tokens(JA_token_list(raw), g))

====
